---- MODULE Spec2Model ----
(***************************************************************************)
(* A model of the neural ASA-graph of danbulnet/asa-graphs                 *)
(* (src/src/neural/graph.rs, src/src/neural/element.rs).                   *)
(*                                                                         *)
(* The graph is a B-tree of Nodes whose key slots point to Elements; the   *)
(* Elements form a doubly linked, weighted chain in key order and carry a  *)
(* counter and an activation.  Nodes and Elements live in two arenas       *)
(* (sequences); an Rc / Weak pointer is the index of its target, None is 0.*)
(* Array indices are 0-based as in the source; slot i of an array is       *)
(* element i + 1 of the sequence that models it.                           *)
(*                                                                         *)
(* f32 values (weights, activations, signals, range) are modelled as exact *)
(* rationals [n, d] in lowest terms; [n |-> 0, d |-> 0] is NaN.            *)
(***************************************************************************)
EXTENDS Integers, Sequences, FiniteSets, TLC

\* ------------------------------------------------------------------ bounds
\* keys offered to insert / activate / deactivate are 1 .. MaxKey
MaxKey == 5
\* at most MaxInserts calls of insert (direct or through activate)
MaxInserts == 6
\* at most MaxActs calls of activate / deactivate / deactivate_sensor
MaxActs == 2
\* number of connect calls made on the elements of NeuronSpec
MaxConnects == 2
\* RangeSpec draws the extreme keys from 0, 0.5, 1, ..., MaxHalfKey / 2
MaxHalfKey == 10
\* the scenario specification grows a contiguous run of keys inside 1 .. RunKey
RunKey == 9
\* ConnectionsSpec makes at most MaxLinkCalls calls of set_connections
MaxLinkCalls == 3

\* --------------------------------------------------------- program constants
ORDER == 3
\* Node::MAX_KEYS and the index of the key a split promotes.  node.rs is not
\* part of the sources at hand; tests::insert_3_degree (root key 128 after
\* inserting 1 .. 250 and 500 .. 150 with ORDER = 3) and insert_25_degree (169)
\* hold for these values and for no other pair around them
MAX_KEYS == ORDER
MID_INDEX == ORDER \div 2

None == 0
NoKey == -1
Panic == -2

\* -------------------------------------------------------------- f32 values
RECURSIVE Gcd(_, _)
Gcd(a, b) == IF b = 0 THEN a ELSE Gcd(b, a % b)

Abs(x) == IF x < 0 THEN -x ELSE x

NaN == [n |-> 0, d |-> 0]

IsNaN(x) == x.d = 0

Rat(n, d) ==
    IF d = 0 THEN NaN
    ELSE LET g == Gcd(Abs(n), Abs(d))
             s == IF d < 0 THEN -1 ELSE 1
         IN  [n |-> (s * n) \div g, d |-> (s * d) \div g]

Zero == Rat(0, 1)
One == Rat(1, 1)

RAdd(x, y) == IF IsNaN(x) \/ IsNaN(y) THEN NaN ELSE Rat(x.n * y.d + y.n * x.d, x.d * y.d)

RSub(x, y) == IF IsNaN(x) \/ IsNaN(y) THEN NaN ELSE Rat(x.n * y.d - y.n * x.d, x.d * y.d)

RMul(x, y) == IF IsNaN(x) \/ IsNaN(y) THEN NaN ELSE Rat(x.n * y.n, x.d * y.d)

\* x / 0 is an infinity or NaN in f32; both are folded into NaN
RDiv(x, y) == IF IsNaN(x) \/ IsNaN(y) \/ y.n = 0 THEN NaN ELSE Rat(x.n * y.d, x.d * y.n)

\* comparisons with NaN are false
RGt(x, y) == ~IsNaN(x) /\ ~IsNaN(y) /\ x.n * y.d > y.n * x.d

INTERELEMENT_ACTIVATION_THRESHOLD == Rat(4, 5)

\* Distance::distance of two integer keys
distance(a, b) == Abs(a - b)

\* ------------------------------------------------------------------ Element
\* a chain link Option<(Weak<Element>, f32)>: Some((e, w)) and None
Link(e, w) == [to |-> e, w |-> w]

NoLink == [to |-> None, w |-> NaN]

\* Element::new
NewElement(key) ==
    [key |-> key, counter |-> 1, activation |-> Zero, next |-> NoLink, prev |-> NoLink,
     definitions |-> << >>]

\* Element::weight
weight(self, other, range) ==
    RSub(One, RDiv(Rat(Abs(distance(other.key, self.key)), 1), range))

\* set_connections that leaves the next link of the predecessor as it was
set_connections_skip_prev_next(elems, e, prev_opt, next_opt, range) ==
    LET w1 == weight(elems[e], elems[prev_opt], range)
        e1 == IF prev_opt # None
              THEN [elems EXCEPT ![e].prev = Link(prev_opt, w1)]
              ELSE [elems EXCEPT ![e].prev = NoLink]
        w2 == weight(e1[e], e1[next_opt], range)
    IN  IF next_opt # None
        THEN [e1 EXCEPT ![e].next = Link(next_opt, w2),
                        ![next_opt].prev = Link(e, w2)]
        ELSE [e1 EXCEPT ![e].next = NoLink]

\* set_connections that leaves the prev link of the successor as it was
set_connections_skip_next_prev(elems, e, prev_opt, next_opt, range) ==
    LET w1 == weight(elems[e], elems[prev_opt], range)
        e1 == IF prev_opt # None
              THEN [elems EXCEPT ![e].prev = Link(prev_opt, w1),
                                 ![prev_opt].next = Link(e, w1)]
              ELSE [elems EXCEPT ![e].prev = NoLink]
        w2 == weight(e1[e], e1[next_opt], range)
    IN  IF next_opt # None
        THEN [e1 EXCEPT ![e].next = Link(next_opt, w2)]
        ELSE [e1 EXCEPT ![e].next = NoLink]

\* set_connections that, given no predecessor, also clears the next link of
\* the element that was the predecessor
set_connections_unlinks_former(elems, e, prev_opt, next_opt, range) ==
    LET former == elems[e].prev.to
        w1 == weight(elems[e], elems[prev_opt], range)
        e1 == IF prev_opt # None
              THEN [elems EXCEPT ![e].prev = Link(prev_opt, w1),
                                 ![prev_opt].next = Link(e, w1)]
              ELSE IF former # None
              THEN [elems EXCEPT ![e].prev = NoLink, ![former].next = NoLink]
              ELSE [elems EXCEPT ![e].prev = NoLink]
        w2 == weight(e1[e], e1[next_opt], range)
    IN  IF next_opt # None
        THEN [e1 EXCEPT ![e].next = Link(next_opt, w2),
                        ![next_opt].prev = Link(e, w2)]
        ELSE [e1 EXCEPT ![e].next = NoLink]

\* Element::set_connections
set_connections(elems, e, prev_opt, next_opt, range) ==
    LET w1 == weight(elems[e], elems[prev_opt], range)
        e1 == IF prev_opt # None
              THEN [elems EXCEPT ![e].prev = Link(prev_opt, w1),
                                 ![prev_opt].next = Link(e, w1)]
              ELSE [elems EXCEPT ![e].prev = NoLink]
        w2 == weight(e1[e], e1[next_opt], range)
    IN  IF next_opt # None
        THEN [e1 EXCEPT ![e].next = Link(next_opt, w2),
                        ![next_opt].prev = Link(e, w2)]
        ELSE [e1 EXCEPT ![e].next = NoLink]

\* --------------------------------------------------------------------- Node
\* Node::new
NewNode(is_leaf, parent) ==
    [size |-> 0, is_leaf |-> is_leaf, parent |-> parent,
     keys |-> << >>, elements |-> << >>, children |-> << >>]

\* s with x inserted so that it becomes slot i (0-based); later slots shift right
InsertAt(s, i, x) == SubSeq(s, 1, i) \o << x >> \o SubSeq(s, i + 1, Len(s))

\* the slot (0-based) of child c in node.children
RECURSIVE ChildIndex(_, _, _)
ChildIndex(node, c, i) ==
    IF i >= Len(node.children) THEN Panic
    ELSE IF node.children[i + 1] = c THEN i
    ELSE ChildIndex(node, c, i + 1)

\* left-to-right scan of insert_existing_key: walks right while key > keys[i]
RECURSIVE ScanFromLeft(_, _, _)
ScanFromLeft(node, key, index) ==
    IF index < node.size /\ key > node.keys[index + 1]
    THEN ScanFromLeft(node, key, index + 1)
    ELSE index

\* right-to-left scan of insert_existing_key: starts at size - 1 and walks
\* left while key < keys[i]; yields the slot where descent / insert occurs
RECURSIVE ScanFromRight(_, _, _)
ScanFromRight(node, key, index) ==
    IF index >= 0 /\ key < node.keys[index + 1]
    THEN ScanFromRight(node, key, index - 1)
    ELSE IF index >= 0 /\ key = node.keys[index + 1] THEN index
    ELSE index + 1

\* Node::insert_existing_key: (matched element or None, insertion index);
\* the caller applies the counter increment of a match (IncrementCounter)
insert_existing_key(node, key, from_right) ==
    LET index == IF from_right THEN ScanFromRight(node, key, node.size - 1)
                 ELSE ScanFromLeft(node, key, 0)
    IN  IF index < node.size /\ node.keys[index + 1] = key
        THEN << node.elements[index + 1], index >>
        ELSE << None, index >>

\* IncrementCounter that also counts the call on the successor of the match
IncrementCounterWithNext(elems, e) ==
    IF elems[e].next.to = None THEN [elems EXCEPT ![e].counter = @ + 1]
    ELSE [elems EXCEPT ![e].counter = @ + 1, ![elems[e].next.to].counter = @ + 1]

\* the counter increment insert_existing_key performs on a match
IncrementCounter(elems, e) == [elems EXCEPT ![e].counter = @ + 1]

\* in-order predecessor of the first slot of node n: walk via parent
RECURSIVE PrevViaParent(_, _)
PrevViaParent(nodes, n) ==
    LET p == nodes[n].parent
        j == ChildIndex(nodes[p], n, 0)
    IN  IF p = None THEN None
        ELSE IF j > 0 THEN nodes[p].elements[j]
        ELSE PrevViaParent(nodes, p)

\* in-order successor of the last slot of node n: walk via parent
RECURSIVE NextViaParent(_, _)
NextViaParent(nodes, n) ==
    LET p == nodes[n].parent
        j == ChildIndex(nodes[p], n, 0)
    IN  IF p = None THEN None
        ELSE IF j < nodes[p].size THEN nodes[p].elements[j + 1]
        ELSE NextViaParent(nodes, p)

\* Node::insert_key_leaf on graph record g: the new Element is Len(g.elems) + 1
insert_key_leaf(g, n, key, range) ==
    LET node == g.nodes[n]
        index == ScanFromLeft(node, key, 0)
        e == Len(g.elems) + 1
        prev_opt == IF index > 0 THEN node.elements[index]
                    ELSE PrevViaParent(g.nodes, n)
        next_opt == IF index < node.size THEN node.elements[index + 1]
                    ELSE NextViaParent(g.nodes, n)
        node1 == [node EXCEPT !.keys = InsertAt(@, index, key),
                              !.elements = InsertAt(@, index, e),
                              !.size = @ + 1]
    IN  [g EXCEPT !.nodes = [@ EXCEPT ![n] = node1],
                  !.elems = set_connections(Append(@, NewElement(key)),
                                            e, prev_opt, next_opt, range)]

\* the parent back-link of every node of the sequence moved set to r
RECURSIVE SetParents(_, _, _)
SetParents(nodes, moved, r) ==
    IF moved = << >> THEN nodes
    ELSE SetParents([nodes EXCEPT ![Head(moved)].parent = r], Tail(moved), r)

\* Node::split_child(parent p, slot i): the full child keeps slots
\* 0 .. MID_INDEX - 1, slot MID_INDEX is promoted into p at slot i, the
\* slots above it (and the children right of it) move to a new sibling
split_child(nodes, p, i) ==
    LET c == nodes[p].children[i + 1]
        child == nodes[c]
        r == Len(nodes) + 1
        moved == IF child.is_leaf THEN << >>
                 ELSE SubSeq(child.children, MID_INDEX + 2, child.size + 1)
        right == [size |-> child.size - MID_INDEX - 1,
                  is_leaf |-> child.is_leaf,
                  parent |-> p,
                  keys |-> SubSeq(child.keys, MID_INDEX + 2, child.size),
                  elements |-> SubSeq(child.elements, MID_INDEX + 2, child.size),
                  children |-> moved]
        left == [child EXCEPT !.size = MID_INDEX,
                              !.keys = SubSeq(@, 1, MID_INDEX),
                              !.elements = SubSeq(@, 1, MID_INDEX),
                              !.children = IF child.is_leaf THEN << >>
                                           ELSE SubSeq(@, 1, MID_INDEX + 1)]
        parent == [nodes[p] EXCEPT
                      !.size = @ + 1,
                      !.keys = InsertAt(@, i, child.keys[MID_INDEX + 1]),
                      !.elements = InsertAt(@, i, child.elements[MID_INDEX + 1]),
                      !.children = InsertAt(@, i + 1, r)]
    IN  SetParents([Append(nodes, right) EXCEPT ![c] = left, ![p] = parent], moved, r)

\* -------------------------------------------------------------------- Graph
\* ASAGraph::new
NewGraph ==
    [nodes |-> << NewNode(TRUE, None) >>, elems |-> << >>, root |-> 1,
     element_min |-> None, element_max |-> None,
     key_min |-> NoKey, key_max |-> NoKey]

\* ASAGraph::extreme_keys: None (FALSE here) unless both extrema are set
extreme_keys(g) == ~(g.key_min = NoKey \/ g.key_max = NoKey)

\* SearchLeftScan with the comparison key >= keys[index]: the scan steps over
\* the slot that holds the key
RECURSIVE SearchLeftScanGe(_, _, _)
SearchLeftScanGe(node, key, index) ==
    IF index < node.size /\ key >= node.keys[index + 1]
    THEN SearchLeftScanGe(node, key, index + 1)
    ELSE index

\* the inner while of search_left: walks right while index < size and key > keys[index]
RECURSIVE SearchLeftScan(_, _, _)
SearchLeftScan(node, key, index) ==
    IF index < node.size /\ key > node.keys[index + 1]
    THEN SearchLeftScan(node, key, index + 1)
    ELSE index

\* ASAGraph::search_left; Panic models the unwrap of an empty key slot
RECURSIVE search_left(_, _, _)
search_left(g, key, n) ==
    LET node == g.nodes[n]
        index == SearchLeftScan(node, key, 0)
    IN  IF node.size = 0 THEN Panic
        ELSE IF index < node.size /\ key = node.keys[index + 1]
             THEN node.elements[index + 1]
        ELSE IF node.is_leaf THEN None
        ELSE search_left(g, key, node.children[index + 1])

\* SearchRightScan with the comparison key <= keys[index]: the scan steps over
\* the slot that holds the key
RECURSIVE SearchRightScanLe(_, _, _)
SearchRightScanLe(node, key, index) ==
    IF index > 0 /\ key <= node.keys[index + 1]
    THEN SearchRightScanLe(node, key, index - 1)
    ELSE index

\* the inner while of search_right: walks left while index > 0 and key < keys[index]
RECURSIVE SearchRightScan(_, _, _)
SearchRightScan(node, key, index) ==
    IF index > 0 /\ key < node.keys[index + 1]
    THEN SearchRightScan(node, key, index - 1)
    ELSE index

\* ASAGraph::search_right; Panic models size - 1 on an empty node
RECURSIVE search_right(_, _, _)
search_right(g, key, n) ==
    LET node == g.nodes[n]
        index == SearchRightScan(node, key, node.size - 1)
        current_key == node.keys[index + 1]
    IN  IF node.size = 0 THEN Panic
        ELSE IF key = current_key THEN node.elements[index + 1]
        ELSE IF node.is_leaf THEN None
        ELSE IF key > current_key THEN search_right(g, key, node.children[index + 2])
        ELSE search_right(g, key, node.children[index + 1])

\* the direction test shared by search and insert
CloserToMin(g, key) == distance(key, g.key_max) > distance(key, g.key_min)

\* ASAGraph::search
search(g, key) ==
    IF ~extreme_keys(g) THEN None
    ELSE IF CloserToMin(g, key) THEN search_left(g, key, g.root)
    ELSE search_right(g, key, g.root)

\* ASAGraph::range that returns the distance as it is
RangeOfDistanceRaw(ret) == ret

\* ASAGraph::range, its last line: the value for the distance ret of the extrema
RangeOfDistance(ret) == IF ret = Zero THEN One ELSE ret

\* ASAGraph::range
range(g) ==
    IF g.key_min = NoKey \/ g.key_max = NoKey THEN NaN
    ELSE RangeOfDistance(Rat(distance(g.key_min, g.key_max), 1))

\* Distance::distance of two keys of a real type, a / 2 and b / 2
distance_halves(a, b) == Rat(Abs(a - b), 2)

\* ASAGraph::range of a graph whose keys are of a real type; key_min and
\* key_max count halves
range_halves(g) ==
    IF g.key_min = NoKey \/ g.key_max = NoKey THEN NaN
    ELSE RangeOfDistance(distance_halves(g.key_min, g.key_max))

\* ASAGraph::update_elements_weights, the loop body from element e on
RECURSIVE UpdateWeightsFrom(_, _, _, _)
UpdateWeightsFrom(elems, e, rng, fuel) ==
    LET p == elems[e].prev.to
        wp == weight(elems[e], elems[p], rng)
        e1 == IF elems[e].prev # NoLink
              THEN [elems EXCEPT ![e].prev = Link(p, wp), ![p].next = Link(e, wp)]
              ELSE elems
        nx == e1[e].next.to
        wn == weight(e1[e], e1[nx], rng)
        e2 == [e1 EXCEPT ![e].next = Link(nx, wn), ![nx].prev = Link(e, wn)]
    IN  IF e1[e].next = NoLink \/ fuel = 0 THEN e1
        ELSE UpdateWeightsFrom(e2, nx, rng, fuel - 1)

\* update_elements_weights that refreshes nothing
update_elements_weights_skip(g, rng) == g

\* update_elements_weights that also clears the activation of element_min
update_elements_weights_resets_min(g, rng) ==
    IF g.element_min = None THEN g
    ELSE [g EXCEPT !.elems = [UpdateWeightsFrom(@, g.element_min, rng, Len(@))
                                 EXCEPT ![g.element_min].activation = Zero]]

\* ASAGraph::update_elements_weights
update_elements_weights(g, rng) ==
    IF g.element_min = None THEN g
    ELSE [g EXCEPT !.elems = UpdateWeightsFrom(@, g.element_min, rng, Len(@))]

\* set_extrema that moves key_min / key_max and leaves element_min /
\* element_max where they were
set_extrema_keys_only(g, element) ==
    LET key == g.elems[element].key
        lower == key < g.key_min
        upper == key > g.key_max
        g1 == IF lower THEN [g EXCEPT !.key_min = key] ELSE g
        g2 == IF upper THEN [g1 EXCEPT !.key_max = key] ELSE g1
        first == [g EXCEPT !.key_min = key, !.key_max = key]
    IN  IF g.key_min = NoKey \/ g.key_max = NoKey
        THEN update_elements_weights(first, Rat(distance(key, key), 1))
        ELSE IF lower \/ upper
             THEN update_elements_weights(g2, Rat(distance(g2.key_min, g2.key_max), 1))
             ELSE g

\* the test of the fatal path of set_extrema:
\* key_min.is_none() != key_max.is_none()
InconsistentExtrema(g) == (g.key_min = NoKey) # (g.key_max = NoKey)

\* ASAGraph::set_extrema (without its fatal path, which insert tests with
\* InconsistentExtrema before it applies set_extrema)
set_extrema(g, element) ==
    LET key == g.elems[element].key
        lower == key < g.key_min
        upper == key > g.key_max
        g1 == IF lower THEN [g EXCEPT !.key_min = key, !.element_min = element] ELSE g
        g2 == IF upper THEN [g1 EXCEPT !.key_max = key, !.element_max = element] ELSE g1
        first == [g EXCEPT !.key_min = key, !.key_max = key,
                           !.element_min = element, !.element_max = element]
    IN  IF g.key_min = NoKey \/ g.key_max = NoKey
        THEN update_elements_weights(first, Rat(distance(key, key), 1))
        ELSE IF lower \/ upper
             THEN update_elements_weights(g2, Rat(distance(g2.key_min, g2.key_max), 1))
             ELSE g

\* insert_first_element that leaves the four extrema as they were
insert_first_element_no_extrema(g, n, key) ==
    LET e == Len(g.elems) + 1
    IN  [g EXCEPT !.elems = Append(@, NewElement(key)),
                  !.nodes = [@ EXCEPT ![n].elements = << e >>,
                                      ![n].keys = << key >>,
                                      ![n].size = 1]]

\* ASAGraph::insert_first_element
insert_first_element(g, n, key) ==
    LET e == Len(g.elems) + 1
    IN  [g EXCEPT !.elems = Append(@, NewElement(key)),
                  !.nodes = [@ EXCEPT ![n].elements = << e >>,
                                      ![n].keys = << key >>,
                                      ![n].size = 1],
                  !.key_min = key, !.key_max = key,
                  !.element_min = e, !.element_max = e]

\* split_root that leaves the parent link of the old root empty
split_root_orphan(g) ==
    LET new_root == Len(g.nodes) + 1
        old_root == g.root
        n1 == Append(g.nodes, [NewNode(FALSE, None) EXCEPT !.children = << old_root >>])
    IN  [g EXCEPT !.root = new_root, !.nodes = split_child(n1, new_root, 0)]

\* split_root that puts the new root above the old one and does not split it
split_root_no_split(g) ==
    LET new_root == Len(g.nodes) + 1
        old_root == g.root
        n1 == Append(g.nodes, [NewNode(FALSE, None) EXCEPT !.children = << old_root >>])
    IN  [g EXCEPT !.root = new_root, !.nodes = [n1 EXCEPT ![old_root].parent = new_root]]

\* ASAGraph::split_root
split_root(g) ==
    LET new_root == Len(g.nodes) + 1
        old_root == g.root
        n1 == Append(g.nodes, [NewNode(FALSE, None) EXCEPT !.children = << old_root >>])
        n2 == [n1 EXCEPT ![old_root].parent = new_root]
    IN  [g EXCEPT !.root = new_root, !.nodes = split_child(n2, new_root, 0)]

\* IsFull one key late: a node of MAX_KEYS keys is not split
IsFullAbove(node) == node.size > MAX_KEYS

\* IsFull one key early: a node of MAX_KEYS - 1 keys is split
IsFullEarly(node) == node.size >= MAX_KEYS - 1

\* the test insert applies to the root and to the child it is about to enter
IsFull(node) == node.size = MAX_KEYS

\* DescendsRight that keeps the index of the left half whatever the key is
DescendsRightNever(key, promoted_key) == FALSE

\* after a split, insert moves on to the right half (index += 1) when the key
\* is above the promoted key
DescendsRight(key, promoted_key) == key > promoted_key

\* PromotedHit without the equality test: the key is looked for below the
\* promoted key only
PromotedHitNever(key, promoted_key) == FALSE

\* after a split, insert compares the key with the promoted key
PromotedHit(key, promoted_key) == key = promoted_key

\* PromotedMatch that returns a copy of the promoted element
PromotedMatchCopy(g, e) ==
    [g |-> [g EXCEPT !.elems = Append(@, g.elems[e])], ret |-> Len(g.elems) + 1]

\* what insert does when the key equals the key a split just promoted:
\* it returns the promoted element as it is
PromotedMatch(g, e) == [g |-> g, ret |-> e]

\* the loop of ASAGraph::insert from node n on; yields [g, ret]
RECURSIVE InsertLoop(_, _, _, _)
InsertLoop(g, n, key, from_right) ==
    LET node == g.nodes[n]
        node_insert_result == insert_existing_key(node, key, from_right)
        el == node_insert_result[1]
        index == node_insert_result[2]
        leafg == insert_key_leaf(g, n, key, range(g))
        child == node.children[index + 1]
        gs == [g EXCEPT !.nodes = split_child(@, n, index)]
        ns == gs.nodes[n]
    IN  IF el # None
        THEN [g |-> [g EXCEPT !.elems = IncrementCounter(@, el)], ret |-> el]
        ELSE IF node.is_leaf /\ InconsistentExtrema(g)
        THEN [g |-> leafg, ret |-> Panic]
        ELSE IF node.is_leaf
        THEN [g |-> set_extrema(leafg, Len(leafg.elems)), ret |-> Len(leafg.elems)]
        ELSE IF IsFull(g.nodes[child])
        THEN IF DescendsRight(key, gs.elems[ns.elements[index + 1]].key)
             THEN InsertLoop(gs, ns.children[index + 2], key, from_right)
             ELSE IF PromotedHit(key, ns.keys[index + 1])
             THEN PromotedMatch(gs, ns.elements[index + 1])
             ELSE InsertLoop(gs, ns.children[index + 1], key, from_right)
        ELSE InsertLoop(g, child, key, from_right)

\* the root ASAGraph::insert descends from: a full root is split first
InsertRoot(g) == IF IsFull(g.nodes[g.root]) THEN split_root(g) ELSE g

\* ASAGraph::insert; yields [g, ret], ret = Panic for the fatal path
insert(g, key) ==
    LET g1 == InsertRoot(g)
    IN  IF g.nodes[g.root].size = 0
        THEN [g |-> insert_first_element(g, g.root, key), ret |-> Len(g.elems) + 1]
        ELSE IF ~extreme_keys(g1) THEN [g |-> g1, ret |-> Panic]
        ELSE InsertLoop(g1, g1.root, key, CloserToMin(g1, key))

\* the elements reached from e by following next, e first
RECURSIVE ChainFrom(_, _, _)
ChainFrom(elems, e, fuel) ==
    IF e = None \/ fuel = 0 THEN << >>
    ELSE << e >> \o ChainFrom(elems, elems[e].next.to,
                              fuel - 1)

\* ASAGraphIntoIterator: the elements an iteration of the graph yields
Iterate(g) == ChainFrom(g.elems, g.element_min, Len(g.elems) + 1)

\* ASAGraph::count_elements_unique
count_elements_unique(g) == Len(Iterate(g))

RECURSIVE SumCounters(_, _)
SumCounters(elems, chain) ==
    IF chain = << >> THEN 0
    ELSE elems[Head(chain)].counter + SumCounters(elems, Tail(chain))

\* ASAGraph::count_elements_agg
count_elements_agg(g) == SumCounters(g.elems, Iterate(g))

\* ------------------------------------------------------- Element as a neuron
\* The arena elems holds every Rc<RefCell<dyn Neuron>>: the Elements, and the
\* neurons of other kinds that definitions lead to.
\* a neuron that is not an Element: it keeps its activation and the arguments
\* of the activate calls it received
NewNeuron(definitions) ==
    [activation |-> Zero, definitions |-> definitions, calls |-> << >>]

\* Neuron::is_sensor: true for an Element, false for the other neurons
is_sensor(n) == "key" \in DOMAIN n

\* Neuron::activate of a neuron that is not an Element
NeuronActivate(elems, n, signal, propagate_horizontal, propagate_vertical) ==
    [elems EXCEPT ![n].activation = RAdd(@, signal),
                  ![n].calls = Append(@, << signal, propagate_horizontal,
                                            propagate_vertical >>)]

\* Neuron::deactivate of a neuron that is not an Element
NeuronDeactivate(elems, n, propagate_horizontal, propagate_vertical) ==
    [elems EXCEPT ![n].activation = Zero]

\* Element::defined_neurons: the neurons the definitions lead to
defined_neurons(elems, e) ==
    { elems[e].definitions[i] : i \in 1 .. Len(elems[e].definitions) }

\* NeuronConnect::connect for Element; yields [elems, res]
connect(elems, self, to, kind) ==
    IF kind = "Defining"
    THEN [elems |-> [elems EXCEPT ![self].definitions = Append(@, to)], res |-> "ok"]
    ELSE [elems |-> elems, res |-> "err"]

\* Element::simple_activate, the activation it leaves (the neuron set it
\* returns is defined_neurons)
simple_activate(elems, e, signal) == [elems EXCEPT ![e].activation = RAdd(@, signal)]

\* the value fuzzy_activate carries into the next round of its while loop,
\* read after the step to new_element
CarriedActivation(elems, updated, new_element) == elems[new_element].activation

\* one direction of Element::fuzzy_activate: the while loop, with element the
\* neighbour about to be activated, w the weight of the edge leading to it and
\* element_activation the value tested against the threshold
RECURSIVE FuzzyWalk(_, _, _, _, _, _)
FuzzyWalk(elems, dir, element, w, element_activation, fuel) ==
    LET e1 == simple_activate(elems, element, RMul(element_activation, w))
        lnk == IF dir = "next" THEN e1[element].next ELSE e1[element].prev
    IN  IF ~RGt(element_activation, INTERELEMENT_ACTIVATION_THRESHOLD) \/ fuel = 0
        THEN elems
        ELSE IF lnk = NoLink THEN e1
        ELSE FuzzyWalk(e1, dir, lnk.to, lnk.w,
                       CarriedActivation(e1, element, lnk.to), fuel - 1)

\* Element::fuzzy_activate
fuzzy_activate(elems, self, signal) ==
    LET e0 == [elems EXCEPT ![self].activation = RAdd(@, signal)]
        e1 == IF e0[self].next = NoLink THEN e0
              ELSE FuzzyWalk(e0, "next", e0[self].next.to, e0[self].next.w,
                             e0[self].activation, Len(elems))
    IN  IF e1[self].prev = NoLink THEN e1
        ELSE FuzzyWalk(e1, "prev", e1[self].prev.to, e1[self].prev.w,
                       e1[self].activation, Len(elems))

\* one direction of Element::fuzzy_activate: the neurons harvested from the
\* definitions of the neighbours the while loop activates
RECURSIVE FuzzyHarvest(_, _, _, _, _, _)
FuzzyHarvest(elems, dir, element, w, element_activation, fuel) ==
    LET e1 == simple_activate(elems, element, RMul(element_activation, w))
        lnk == IF dir = "next" THEN e1[element].next ELSE e1[element].prev
    IN  IF ~RGt(element_activation, INTERELEMENT_ACTIVATION_THRESHOLD) \/ fuel = 0
        THEN {}
        ELSE IF lnk = NoLink THEN defined_neurons(e1, element)
        ELSE defined_neurons(e1, element)
                \cup FuzzyHarvest(e1, dir, lnk.to, lnk.w,
                                  CarriedActivation(e1, element, lnk.to), fuel - 1)

\* Element::fuzzy_activate, the neuron set it returns
fuzzy_neurons(elems, self, signal) ==
    LET e0 == [elems EXCEPT ![self].activation = RAdd(@, signal)]
        e1 == IF e0[self].next = NoLink THEN e0
              ELSE FuzzyWalk(e0, "next", e0[self].next.to, e0[self].next.w,
                             e0[self].activation, Len(elems))
    IN  defined_neurons(elems, self)
            \cup ( IF e0[self].next = NoLink THEN {}
                   ELSE FuzzyHarvest(e0, "next", e0[self].next.to, e0[self].next.w,
                                     e0[self].activation, Len(elems)) )
            \cup ( IF e1[self].prev = NoLink THEN {}
                   ELSE FuzzyHarvest(e1, "prev", e1[self].prev.to, e1[self].prev.w,
                                     e1[self].activation, Len(elems)) )

\* the neuron set the horizontal part of Neuron::activate for Element yields
HorizontalNeurons(elems, e, signal, propagate_horizontal) ==
    IF propagate_horizontal THEN fuzzy_neurons(elems, e, signal)
    ELSE defined_neurons(elems, e)

\* a vertical step that passes on the activation of the element whose
\* definition led to the neuron
VerticalSignalOfDefiner(elems, self, neuron) ==
    LET definer == CHOOSE x \in 1 .. Len(elems) :
                       is_sensor(elems[x]) /\ neuron \in defined_neurons(elems, x)
    IN  elems[definer].activation

\* the signal the vertical step of Neuron::activate passes to a neuron of the
\* set: self.activation
VerticalSignal(elems, self, neuron) == elems[self].activation

\* the test the vertical step of Neuron::activate makes on a neuron of the set
VerticalTarget(n) == ~is_sensor(n)

\* the vertical step of Neuron::activate for Element: the loop over the
\* neuron set
RECURSIVE VerticalActivate(_, _, _, _, _)
VerticalActivate(elems, self, todo, propagate_horizontal, propagate_vertical) ==
    IF todo = {} THEN elems
    ELSE LET n == CHOOSE x \in todo : TRUE
         IN  VerticalActivate(
                 IF VerticalTarget(elems[n])
                 THEN NeuronActivate(elems, n, VerticalSignal(elems, self, n),
                                     propagate_horizontal, propagate_vertical)
                 ELSE elems,
                 self, todo \ { n }, propagate_horizontal, propagate_vertical)

\* Neuron::activate for Element, the arena it leaves
ElementActivate(elems, e, signal, propagate_horizontal, propagate_vertical) ==
    LET hz == IF propagate_horizontal THEN fuzzy_activate(elems, e, signal)
              ELSE simple_activate(elems, e, signal)
    IN  IF propagate_vertical
        THEN VerticalActivate(hz, e, HorizontalNeurons(elems, e, signal, propagate_horizontal),
                              propagate_horizontal, propagate_vertical)
        ELSE hz

\* Neuron::activate for Element, the neuron set it returns: the harvested
\* neurons, extended by what the activated neurons return
ElementActivateNeurons(elems, e, signal, propagate_horizontal, propagate_vertical) ==
    LET neurons == HorizontalNeurons(elems, e, signal, propagate_horizontal)
    IN  IF propagate_vertical
        THEN neurons \cup UNION { defined_neurons(elems, n) :
                                    n \in { x \in neurons : VerticalTarget(elems[x]) } }
        ELSE neurons

\* one direction of Element::deactivate_neighbours
RECURSIVE DeactivateWalk(_, _, _, _)
DeactivateWalk(elems, dir, element, fuel) ==
    LET e1 == [elems EXCEPT ![element].activation = Zero]
        lnk == IF dir = "next" THEN e1[element].next ELSE e1[element].prev
    IN  IF lnk = NoLink \/ fuel = 0 THEN e1
        ELSE DeactivateWalk(e1, dir, lnk.to, fuel - 1)

\* deactivate_neighbours that sweeps the next direction only
deactivate_neighbours_next_only(elems, self) ==
    LET e0 == [elems EXCEPT ![self].activation = Zero]
    IN  IF e0[self].next = NoLink THEN e0
        ELSE DeactivateWalk(e0, "next", e0[self].next.to, Len(elems))

\* Element::deactivate_neighbours
deactivate_neighbours(elems, self) ==
    LET e0 == [elems EXCEPT ![self].activation = Zero]
        e1 == IF e0[self].next = NoLink THEN e0
              ELSE DeactivateWalk(e0, "next", e0[self].next.to, Len(elems))
    IN  IF e1[self].prev = NoLink THEN e1
        ELSE DeactivateWalk(e1, "prev", e1[self].prev.to, Len(elems))

\* Neuron::deactivate that sweeps the neighbours whatever the flag says
ElementDeactivateSweep(elems, e, propagate_horizontal, propagate_vertical) ==
    deactivate_neighbours(elems, e)

\* the vertical step of Neuron::deactivate for Element: the loop over
\* self.definitions from index i on
RECURSIVE VerticalDeactivate(_, _, _, _, _)
VerticalDeactivate(elems, self, i, propagate_horizontal, propagate_vertical) ==
    IF i > Len(elems[self].definitions) THEN elems
    ELSE LET n == elems[self].definitions[i]
         IN  VerticalDeactivate(
                 IF ~is_sensor(elems[n])
                 THEN NeuronDeactivate(elems, n, propagate_horizontal, propagate_vertical)
                 ELSE elems,
                 self, i + 1, propagate_horizontal, propagate_vertical)

\* Neuron::deactivate for Element
ElementDeactivate(elems, e, propagate_horizontal, propagate_vertical) ==
    LET hz == IF propagate_horizontal THEN deactivate_neighbours(elems, e)
              ELSE [elems EXCEPT ![e].activation = Zero]
    IN  IF propagate_vertical
        THEN VerticalDeactivate(hz, e, 1, propagate_horizontal, propagate_vertical)
        ELSE hz

\* ------------------------------------------------------------ Sensor facade
\* Sensor::search for ASAGraph: Some(self.search(key).unwrap()); unwrap of None
\* panics
sensor_search(g, key) ==
    LET found == search(g, key)
    IN  IF found = None THEN Panic ELSE found

\* Sensor::activate that inserts a missing key whatever the data category and
\* the flags are
activate_always_inserts(g, category, item, signal, propagate_horizontal, propagate_vertical) ==
    LET act(gr, e) == [gr EXCEPT !.elems = ElementActivate(@, e, signal,
                                     propagate_horizontal, propagate_vertical)]
        known(found) ==
            IF found = Panic THEN [g |-> g, res |-> "panic", inserted |-> FALSE]
            ELSE [g |-> act(g, found), res |-> "ok", inserted |-> FALSE]
        fresh(ins) ==
            IF ins.ret = Panic THEN [g |-> ins.g, res |-> "panic", inserted |-> TRUE]
            ELSE [g |-> act(ins.g, ins.ret), res |-> "ok", inserted |-> TRUE]
    IN  IF search(g, item) # None THEN known(search(g, item))
        ELSE fresh(insert(g, item))

\* Sensor::activate that inserts a missing key and returns the new element
\* without activating it
activate_insert_only(g, category, item, signal, propagate_horizontal, propagate_vertical) ==
    LET act(gr, e) == [gr EXCEPT !.elems = ElementActivate(@, e, signal,
                                     propagate_horizontal, propagate_vertical)]
        known(found) ==
            IF found = Panic THEN [g |-> g, res |-> "panic", inserted |-> FALSE]
            ELSE [g |-> act(g, found), res |-> "ok", inserted |-> FALSE]
        fresh(ins) ==
            IF ins.ret = Panic THEN [g |-> ins.g, res |-> "panic", inserted |-> TRUE]
            ELSE [g |-> ins.g, res |-> "ok", inserted |-> TRUE]
    IN  IF search(g, item) # None THEN known(search(g, item))
        ELSE IF category = "Categorical"
        THEN [g |-> g, res |-> "err", inserted |-> FALSE]
        ELSE IF ~propagate_horizontal
        THEN [g |-> g, res |-> "err", inserted |-> FALSE]
        ELSE fresh(insert(g, item))

\* Sensor::activate for ASAGraph; yields [g, res, inserted]
activate(g, category, item, signal, propagate_horizontal, propagate_vertical) ==
    LET act(gr, e) == [gr EXCEPT !.elems = ElementActivate(@, e, signal,
                                     propagate_horizontal, propagate_vertical)]
        known(found) ==
            IF found = Panic THEN [g |-> g, res |-> "panic", inserted |-> FALSE]
            ELSE [g |-> act(g, found), res |-> "ok", inserted |-> FALSE]
        fresh(ins) ==
            IF ins.ret = Panic THEN [g |-> ins.g, res |-> "panic", inserted |-> TRUE]
            ELSE [g |-> act(ins.g, ins.ret), res |-> "ok", inserted |-> TRUE]
    IN  IF search(g, item) # None THEN known(search(g, item))
        ELSE IF category = "Categorical"
        THEN [g |-> g, res |-> "err", inserted |-> FALSE]
        ELSE IF ~propagate_horizontal
        THEN [g |-> g, res |-> "err", inserted |-> FALSE]
        ELSE fresh(insert(g, item))

\* Sensor::deactivate that falls back to the minimum element when the key is
\* missing
deactivate_missing_falls_back(g, item, propagate_horizontal, propagate_vertical) ==
    LET found == search(g, item)
    IN  IF found = Panic THEN [g |-> g, res |-> "panic"]
        ELSE IF found = None /\ g.element_min = None THEN [g |-> g, res |-> "err"]
        ELSE IF found = None
        THEN [g |-> [g EXCEPT !.elems = ElementDeactivate(@, g.element_min,
                                  propagate_horizontal, propagate_vertical)],
              res |-> "err"]
        ELSE [g |-> [g EXCEPT !.elems = ElementDeactivate(@, found,
                                  propagate_horizontal, propagate_vertical)],
              res |-> "ok"]

\* Sensor::deactivate for ASAGraph; yields [g, res]
deactivate(g, item, propagate_horizontal, propagate_vertical) ==
    LET found == search(g, item)
    IN  IF found = Panic THEN [g |-> g, res |-> "panic"]
        ELSE IF found = None THEN [g |-> g, res |-> "err"]
        ELSE [g |-> [g EXCEPT !.elems = ElementDeactivate(@, found,
                                  propagate_horizontal, propagate_vertical)],
              res |-> "ok"]

\* the loop of Sensor::deactivate_sensor
RECURSIVE DeactivateSensorFrom(_, _, _)
DeactivateSensorFrom(elems, element, fuel) ==
    LET e1 == ElementDeactivate(elems, element, FALSE, FALSE)
    IN  IF e1[element].next = NoLink \/ fuel = 0 THEN e1
        ELSE DeactivateSensorFrom(e1, e1[element].next.to, fuel - 1)

\* deactivate_sensor that starts its walk along next at element_max
deactivate_sensor_from_max(g) ==
    IF g.element_max = None THEN g
    ELSE [g EXCEPT !.elems = DeactivateSensorFrom(@, g.element_max, Len(@))]

\* Sensor::deactivate_sensor for ASAGraph
deactivate_sensor(g) ==
    IF g.element_min = None THEN g
    ELSE [g EXCEPT !.elems = DeactivateSensorFrom(@, g.element_min, Len(@))]

\* ------------------------------------------------------------ state machine
VARIABLES
    nodes,          \* arena of Nodes
    elems,          \* arena of Elements (and of the neurons they define)
    root,           \* ASAGraph.root
    element_min,    \* ASAGraph.element_min
    element_max,    \* ASAGraph.element_max
    key_min,        \* ASAGraph.key_min
    key_max,        \* ASAGraph.key_max
    data_category,  \* ASAGraph.data_category
    driver,         \* the caller: "inserts" (bin/main.rs), "sensor" (tests::sensor)
                    \* or "as_neuron" (element.rs tests::as_neuron)
    inserted,       \* history: key -> number of insert calls made with it
    nacts,          \* history: number of activate / deactivate calls made
    last            \* history: the last call, its arguments and its outcome

vars == << nodes, elems, root, element_min, element_max, key_min, key_max,
           data_category, driver, inserted, nacts, last >>

\* the graph as one record
G == [nodes |-> nodes, elems |-> elems, root |-> root,
      element_min |-> element_min, element_max |-> element_max,
      key_min |-> key_min, key_max |-> key_max]

\* the graph after the step
Gnext == [nodes |-> nodes', elems |-> elems', root |-> root',
          element_min |-> element_min', element_max |-> element_max',
          key_min |-> key_min', key_max |-> key_max']

SetG(g) ==
    /\ nodes' = g.nodes
    /\ elems' = g.elems
    /\ root' = g.root
    /\ element_min' = g.element_min
    /\ element_max' = g.element_max
    /\ key_min' = g.key_min
    /\ key_max' = g.key_max

Keys == 1 .. MaxKey
RunKeys == 1 .. RunKey
AllKeys == Keys \cup RunKeys
\* keys probed by search: every key offered and one key beyond each end
Probes == 0 .. ((IF MaxKey > RunKey THEN MaxKey ELSE RunKey) + 1)

\* the items, signals and flag pairs the sensor driver passes
SensorItems == { 4, 5, 7 }
Signals == { One }
Flags == { << TRUE, TRUE >>, << FALSE, FALSE >> }
\* the signals the operations are examined with in every reachable graph
AnySignal == { One, Rat(1, 2), Rat(9, 10) }
Categories == { "Numerical", "Ordinal", "Categorical" }

RECURSIVE SumOver(_, _)
SumOver(f, S) ==
    IF S = {} THEN 0
    ELSE LET x == CHOOSE y \in S : TRUE IN f[x] + SumOver(f, S \ {x})

\* number of insert calls made so far
TotalInserts == SumOver(inserted, AllKeys)

InsertedKeys == { k \in AllKeys : inserted[k] > 0 }

Call(op, key, signal, h, v, res, ret) ==
    [op |-> op, key |-> key, signal |-> signal, h |-> h, v |-> v,
     res |-> res, ret |-> ret]

\* a panic ends the program
Alive == last.res # "panic"

Init ==
    /\ nodes = NewGraph.nodes
    /\ elems = NewGraph.elems
    /\ root = NewGraph.root
    /\ element_min = NewGraph.element_min
    /\ element_max = NewGraph.element_max
    /\ key_min = NewGraph.key_min
    /\ key_max = NewGraph.key_max
    /\ \/ driver = "inserts" /\ data_category = "Numerical"
       \/ driver = "sensor" /\ data_category \in Categories
    /\ inserted = [k \in AllKeys |-> 0]
    /\ nacts = 0
    /\ last = Call("new", NoKey, Zero, FALSE, FALSE, "ok", None)

\* graph.insert(key)
DoInsert(key) ==
    LET r == insert(G, key)
    IN  /\ Alive
        /\ SetG(r.g)
        /\ inserted' = [inserted EXCEPT ![key] = @ + 1]
        /\ last' = Call("insert", key, Zero, FALSE, FALSE,
                        IF r.ret = Panic THEN "panic" ELSE "ok",
                        IF r.ret = Panic THEN None ELSE r.ret)
        /\ UNCHANGED << data_category, driver, nacts >>

\* the keys that continue the run the sensor driver inserts: any first key,
\* then the neighbour below the minimum (a descending run, as tests::sensor)
\* or above the maximum (an ascending run, as tests::test_connections)
RunNext ==
    IF Len(elems) = 0 THEN RunKeys
    ELSE IF Len(elems) = 1 THEN { key_min - 1, key_max + 1 } \cap RunKeys
    ELSE IF elems[1].key > elems[2].key THEN { key_min - 1 } \cap RunKeys
    ELSE { key_max + 1 } \cap RunKeys

\* graph.insert(key), key chosen by the driver
Insert ==
    \/ /\ driver = "inserts"
       /\ TotalInserts < MaxInserts
       /\ \E key \in Keys : DoInsert(key)
    \/ /\ driver = "sensor"
       /\ nacts = 0
       /\ \E key \in RunNext : DoInsert(key)

\* the state after graph.activate returned r
Activated(item, signal, f, r) ==
    /\ SetG(r.g)
    /\ inserted' = IF r.inserted THEN [inserted EXCEPT ![item] = @ + 1]
                   ELSE inserted
    /\ nacts' = nacts + 1
    /\ last' = Call("activate", item, signal, f[1], f[2], r.res,
                    IF r.res = "ok" THEN search(r.g, item) ELSE None)
    /\ UNCHANGED << data_category, driver >>

\* graph.activate(item, signal, propagate_horizontal, propagate_vertical)
Activate ==
    /\ driver = "sensor"
    /\ nacts < MaxActs
    /\ Alive
    /\ \E item \in SensorItems, signal \in Signals, f \in Flags :
          Activated(item, signal, f,
                    activate(G, data_category, item, signal, f[1], f[2]))

\* graph.deactivate(item, propagate_horizontal, propagate_vertical)
Deactivate ==
    /\ driver = "sensor"
    /\ nacts < MaxActs
    /\ Alive
    /\ \E item \in SensorItems, f \in Flags :
          LET r == deactivate(G, item, f[1], f[2])
          IN  /\ SetG(r.g)
              /\ nacts' = nacts + 1
              /\ last' = Call("deactivate", item, Zero, f[1], f[2], r.res, None)
              /\ UNCHANGED << data_category, driver, inserted >>

\* graph.deactivate_sensor()
DeactivateSensor ==
    /\ driver = "sensor"
    /\ nacts < MaxActs
    /\ Alive
    /\ SetG(deactivate_sensor(G))
    /\ nacts' = nacts + 1
    /\ last' = Call("deactivate_sensor", NoKey, Zero, FALSE, FALSE, "ok", None)
    /\ UNCHANGED << data_category, driver, inserted >>

Next == Insert \/ Activate \/ Deactivate \/ DeactivateSensor

Spec == Init /\ [][Next]_vars

\* ---------------------------------------- elements used as neurons directly
\* The caller of element.rs tests::as_neuron and tests::set_connections: two
\* Elements made by Element::new, left apart or linked by set_connections, and
\* two neurons that are not Elements, the first defining the second.
Standalone ==
    << NewElement(1), NewElement(2), NewNeuron(<< 4 >>), NewNeuron(<< >>) >>

Elements == { e \in 1 .. Len(elems) : is_sensor(elems[e]) }

AllFlags == { << h, v >> : h \in BOOLEAN, v \in BOOLEAN }

ConnectionKinds == { "Defining", "Explanatory" }

\* number of definitions attached so far
RECURSIVE Attached(_, _)
Attached(es, i) ==
    IF i > Len(es) THEN 0
    ELSE (IF is_sensor(es[i]) THEN Len(es[i].definitions) ELSE 0) + Attached(es, i + 1)

AsNeuronInit ==
    /\ nodes = NewGraph.nodes
    /\ root = NewGraph.root
    /\ element_min = NewGraph.element_min
    /\ element_max = NewGraph.element_max
    /\ key_min = NewGraph.key_min
    /\ key_max = NewGraph.key_max
    /\ elems \in { Standalone,
                   set_connections(Standalone, 2, 1, None, Rat(2, 1)),
                   set_connections(Standalone, 2, 1, None, Rat(8, 1)) }
    /\ driver = "as_neuron"
    /\ data_category = "Numerical"
    /\ inserted = [k \in AllKeys |-> 0]
    /\ nacts = 0
    /\ last = Call("new", NoKey, Zero, FALSE, FALSE, "ok", None)

\* element.connect(to, kind); an Element is not connected to itself
AsNeuronConnect ==
    /\ nacts = 0
    /\ Attached(elems, 1) < MaxConnects
    /\ \E self \in Elements, to \in 1 .. Len(elems), kind \in ConnectionKinds :
          /\ to # self
          /\ elems' = connect(elems, self, to, kind).elems
          /\ last' = Call("connect", self, Zero, FALSE, FALSE,
                          connect(elems, self, to, kind).res, to)
    /\ UNCHANGED << nodes, root, element_min, element_max, key_min, key_max,
                    data_category, driver, inserted, nacts >>

\* element.activate(signal, propagate_horizontal, propagate_vertical); a call
\* that harvests the element itself borrows it twice and is not made
AsNeuronActivate ==
    /\ nacts < MaxActs
    /\ \E self \in Elements, signal \in Signals, f \in AllFlags :
          /\ self \notin HorizontalNeurons(elems, self, signal, f[1])
          /\ elems' = ElementActivate(elems, self, signal, f[1], f[2])
          /\ last' = Call("activate", self, signal, f[1], f[2], "ok",
                          ElementActivateNeurons(elems, self, signal, f[1], f[2]))
    /\ nacts' = nacts + 1
    /\ UNCHANGED << nodes, root, element_min, element_max, key_min, key_max,
                    data_category, driver, inserted >>

\* element.deactivate(propagate_horizontal, propagate_vertical)
AsNeuronDeactivate ==
    /\ nacts < MaxActs
    /\ \E self \in Elements, f \in Flags :
          /\ elems' = ElementDeactivate(elems, self, f[1], f[2])
          /\ last' = Call("deactivate", self, Zero, f[1], f[2], "ok", None)
    /\ nacts' = nacts + 1
    /\ UNCHANGED << nodes, root, element_min, element_max, key_min, key_max,
                    data_category, driver, inserted >>

AsNeuronNext == AsNeuronConnect \/ AsNeuronActivate \/ AsNeuronDeactivate

NeuronSpec == AsNeuronInit /\ [][AsNeuronNext]_vars

\* ------------------------------------------------- range() as a function
\* range() reads key_min and key_max only.  The extrema are drawn from the
\* keys of a real type (both set, or both None as in an empty graph), and
\* range() is called on them.
HalfKeys == 0 .. MaxHalfKey

RangeInit ==
    /\ nodes = NewGraph.nodes
    /\ elems = NewGraph.elems
    /\ root = NewGraph.root
    /\ element_min = NewGraph.element_min
    /\ element_max = NewGraph.element_max
    /\ \/ key_min = NoKey /\ key_max = NoKey
       \/ key_min \in HalfKeys /\ key_max \in HalfKeys /\ key_min <= key_max
    /\ driver = "range"
    /\ data_category = "Numerical"
    /\ inserted = [k \in AllKeys |-> 0]
    /\ nacts = 0
    /\ last = Call("new", NoKey, Zero, FALSE, FALSE, "ok", NaN)

\* graph.range()
CallRange ==
    /\ last.op = "new"
    /\ last' = Call("range", NoKey, Zero, FALSE, FALSE, "ok", range_halves(G))
    /\ UNCHANGED << nodes, elems, root, element_min, element_max, key_min, key_max,
                    data_category, driver, inserted, nacts >>

RangeNext == CallRange

RangeSpec == RangeInit /\ [][RangeNext]_vars

\* ------------------------------------------- set_connections as a function
\* The caller of element.rs tests::set_connections: three Elements made by
\* Element::new with the keys 1, 2, 3, on which set_connections is called with
\* any of the other two, or None, on each side.
Unlinked == << NewElement(1), NewElement(2), NewElement(3) >>

LinkRanges == { Rat(2, 1), Rat(8, 1) }

ConnectionsInit ==
    /\ nodes = NewGraph.nodes
    /\ elems = Unlinked
    /\ root = NewGraph.root
    /\ element_min = NewGraph.element_min
    /\ element_max = NewGraph.element_max
    /\ key_min = NewGraph.key_min
    /\ key_max = NewGraph.key_max
    /\ driver = "set_connections"
    /\ data_category = "Numerical"
    /\ inserted = [k \in AllKeys |-> 0]
    /\ nacts = 0
    /\ last = Call("new", NoKey, Zero, FALSE, FALSE, "ok", << None, None >>)

\* Element::set_connections(element, prev_opt, next_opt, rng); the element
\* is mutably borrowed during the call, so it is not passed as its own
\* neighbour
CallSetConnections ==
    /\ nacts < MaxLinkCalls
    /\ \E e \in 1 .. Len(elems), rng \in LinkRanges :
       \E prev_opt \in (0 .. Len(elems)) \ {e}, next_opt \in (0 .. Len(elems)) \ {e} :
          /\ elems' = set_connections(elems, e, prev_opt, next_opt, rng)
          /\ last' = Call("set_connections", e, rng, FALSE, FALSE, "ok",
                          << prev_opt, next_opt >>)
    /\ nacts' = nacts + 1
    /\ UNCHANGED << nodes, root, element_min, element_max, key_min, key_max,
                    data_category, driver, inserted >>

ConnectionsNext == CallSetConnections

ConnectionsSpec == ConnectionsInit /\ [][ConnectionsNext]_vars

\* ------------------------------------------------------------------ claims
\* the elements of the subtree of node n in in-order; InOrderUpTo stops after
\* slot i (1-based) and the child right of it
RECURSIVE InOrder(_, _), InOrderUpTo(_, _, _)
InOrderUpTo(ns, n, i) ==
    IF i = 0 THEN InOrder(ns, ns[n].children[1])
    ELSE InOrderUpTo(ns, n, i - 1) \o << ns[n].elements[i] >>
             \o InOrder(ns, ns[n].children[i + 1])

InOrder(ns, n) ==
    IF ns[n].is_leaf THEN ns[n].elements ELSE InOrderUpTo(ns, n, ns[n].size)

\* the nodes of the subtree of node n
RECURSIVE Subtree(_, _)
Subtree(ns, n) ==
    {n} \cup UNION { Subtree(ns, ns[n].children[i]) : i \in 1 .. Len(ns[n].children) }

TreeNodes == Subtree(nodes, root)

\* the key slots of the tree that hold key k
SlotsOf(k) == { << n, i >> \in TreeNodes \X (1 .. MAX_KEYS + 1) :
                    i <= nodes[n].size /\ nodes[n].keys[i] = k }

KeysOf(chain) == [i \in 1 .. Len(chain) |-> elems[chain[i]].key]

\* C1: search(k) returns an element whose key is k for every inserted key k,
\* and returns none, without failing, for every key that was never inserted
\* (any key on an empty graph, keys below key_min and above key_max included)
C1_SearchSound ==
    \A k \in Probes :
        LET r == search(G, k)
        IN  IF k \in InsertedKeys
            THEN r \notin { None, Panic } /\ elems[r].key = k
            ELSE r = None

\* C1 witness: a tree that was split, searched for all of its keys, for a
\* missing key inside the range and for the keys beyond both extrema
C1_Witness ==
    /\ last.op = "insert"
    /\ Len(nodes) >= 3
    /\ \A k \in InsertedKeys : elems[search(G, k)].key = k
    /\ \E k \in Probes \ InsertedKeys :
          key_min < k /\ k < key_max /\ search(G, k) = None
    /\ search(G, key_min - 1) = None
    /\ search(G, key_max + 1) = None

\* C2: the sum of the counters over the chain (count_elements_agg) equals the
\* number of insert calls made
C2_CountConservation == count_elements_agg(G) = TotalInserts

\* C3: the number of elements (count_elements_unique) equals the number of
\* distinct keys inserted; each distinct key is held by exactly one element and
\* occupies exactly one key slot of the tree
C3_Uniqueness ==
    /\ count_elements_unique(G) = Cardinality(InsertedKeys)
    /\ Len(elems) = Cardinality(InsertedKeys)
    /\ \A k \in InsertedKeys :
          /\ Cardinality({ e \in 1 .. Len(elems) : elems[e].key = k }) = 1
          /\ Cardinality(SlotsOf(k)) = 1
    /\ \A k \in AllKeys \ InsertedKeys : SlotsOf(k) = {}

\* C3 witness: duplicates were inserted into a tree that was split
C3_Witness ==
    /\ last.op = "insert"
    /\ Len(nodes) >= 3
    /\ Cardinality(InsertedKeys) >= 4
    /\ TotalInserts > Cardinality(InsertedKeys)
    /\ count_elements_unique(G) = Cardinality(InsertedKeys)

\* C4: following next from element_min (the ordered iteration) yields every
\* element exactly once, in strictly ascending key order, and the key sequence
\* equals the in-order traversal of the tree
C4_ChainInOrder ==
    LET chain == Iterate(G)
    IN  /\ \A e \in 1 .. Len(elems) :
              Cardinality({ i \in 1 .. Len(chain) : chain[i] = e }) = 1
        /\ \A i \in 1 .. Len(chain) - 1 : elems[chain[i]].key < elems[chain[i + 1]].key
        /\ KeysOf(chain) = KeysOf(InOrder(nodes, root))

\* C4 witness: a tree of two levels or more whose chain does not follow the
\* order of insertion, iterated in full
C4_Witness ==
    /\ last.op = "insert"
    /\ Len(nodes) >= 3
    /\ Len(Iterate(G)) = Len(elems)
    /\ \E i \in 1 .. Len(elems) - 1 : Iterate(G)[i] > Iterate(G)[i + 1]
    /\ \E i \in 1 .. Len(elems) - 1 : Iterate(G)[i] < Iterate(G)[i + 1]

\* C5: the chain is a consistent doubly-linked list: a.next = b if and only if
\* b.prev = a, element_min has no prev, element_max has no next, and the
\* next-walk from element_min ends at element_max
C5_DoublyLinked ==
    LET chain == Iterate(G)
    IN  /\ \A a, b \in 1 .. Len(elems) :
              (elems[a].next.to = b) <=> (elems[b].prev.to = a)
        /\ element_min # None => elems[element_min].prev = NoLink
        /\ element_max # None => elems[element_max].next = NoLink
        /\ Len(chain) <= Len(elems)
        /\ IF element_min = None THEN chain = << >> /\ element_max = None
           ELSE chain[Len(chain)] = element_max

\* C5 witness: keys inserted in mixed order, one of them between two older
\* neighbours, and the walk from element_min has reached element_max
C5_Witness ==
    /\ last.op = "insert"
    /\ Len(elems) >= 4
    /\ \E e \in 1 .. Len(elems) :
          /\ elems[e].prev # NoLink /\ elems[e].next # NoLink
          /\ elems[e].prev.to < e /\ elems[e].next.to < e
    /\ element_min # 1 /\ element_max # 1
    /\ Iterate(G)[Len(elems)] = element_max

\* C6: after every insert key_min is the minimum and key_max the maximum of
\* the keys inserted so far, and element_min / element_max are the elements
\* whose keys are key_min / key_max
C6_Extrema ==
    InsertedKeys # {} =>
        /\ key_min \in InsertedKeys /\ \A k \in InsertedKeys : key_min <= k
        /\ key_max \in InsertedKeys /\ \A k \in InsertedKeys : k <= key_max
        /\ element_min # None /\ elems[element_min].key = key_min
        /\ element_max # None /\ elems[element_max].key = key_max

\* C6 witness: both extrema were moved by inserts after the first one, and the
\* last insert moved neither
C6_Witness ==
    /\ last.op = "insert"
    /\ element_min \notin { None, 1 } /\ element_max \notin { None, 1 }
    /\ last.ret \notin { element_min, element_max, None }
    /\ elems[last.ret].counter = 1

C10_SensorVector ==
    ( /\ InsertedKeys = 1 .. 9
      /\ data_category = "Numerical"
      /\ \A e \in 1 .. Len(elems) : elems[e].activation = Zero ) =>
        LET r == activate(G, data_category, 5, One, TRUE, TRUE)
            expected == [k \in 1 .. 9 |->
                            IF k = 5 THEN One
                            ELSE IF k \in { 4, 6 } THEN Rat(7, 8)
                            ELSE IF k \in { 3, 7 } THEN Rat(49, 64)
                            ELSE Zero]
        IN  /\ r.res = "ok"
            /\ \A e \in 1 .. Len(elems) :
                  r.g.elems[e].activation = expected[elems[e].key]

\* every element of the arena es is at activation 0
AllZero(es) == \A e \in 1 .. Len(es) : es[e].activation = Zero

\* the elements of the arena es whose activation is not 0
Hot(es) == { e \in 1 .. Len(es) : es[e].activation # Zero }

\* C11: a successful activate(key, sig, h, v) followed by deactivate_sensor()
\* leaves the activation of every element of the graph equal to 0
C11_ActivateThenDeactivateSensor ==
    /\ (last.op = "activate" /\ last.res = "ok") =>
           AllZero(deactivate_sensor(G).elems)
    /\ last.op = "deactivate_sensor" => AllZero(elems)

\* C11 witness: a horizontal activate has left three or more elements, the
\* minimum not among them, above 0, and deactivate_sensor resets them all
C11_Witness ==
    /\ last.op = "activate" /\ last.res = "ok" /\ last.h
    /\ Cardinality(Hot(elems)) >= 3
    /\ element_min \notin Hot(elems)
    /\ AllZero(deactivate_sensor(G).elems)

\* C12: deactivate(k, propagate_horizontal = true, v) on any existing key k
\* sets the activation of every element of the chain to 0
C12_DeactivateSweepsAll ==
    \A k \in InsertedKeys, v \in BOOLEAN :
        LET r == deactivate(G, k, TRUE, v)
        IN  r.res = "ok" /\ AllZero(r.g.elems)

\* C12 witness: elements on both sides of an element that is itself at 0 are
\* above 0, and deactivate of that element's key resets them all
C12_Witness ==
    /\ last.op = "activate" /\ last.res = "ok"
    /\ \E k \in InsertedKeys :
          LET e == search(G, k)
          IN  /\ k # last.key
              /\ e \notin Hot(elems)
              /\ \E a, b \in Hot(elems) : elems[a].key < k /\ k < elems[b].key
              /\ AllZero(deactivate(G, k, TRUE, TRUE).g.elems)

\* C13: without horizontal propagation a successful activate(k, s, false, v)
\* adds s to the activation of k's element, a successful
\* deactivate(k, false, v) sets it to 0, and either leaves the activation of
\* every other element unchanged
C13_NoHorizontalFrame ==
    [][ ( /\ last'.op \in { "activate", "deactivate" }
          /\ last'.res = "ok"
          /\ ~last'.h ) =>
            /\ Len(elems') = Len(elems)
            /\ \A e \in 1 .. Len(elems) :
                  elems'[e].activation =
                      IF elems[e].key # last'.key THEN elems[e].activation
                      ELSE IF last'.op = "activate"
                           THEN RAdd(elems[e].activation, last'.signal)
                           ELSE Zero ]_vars

\* C13 witness: deactivate(k, false, false) has reset k's element and both of
\* its neighbours are still above 0
C13_Witness ==
    /\ last.op = "deactivate" /\ last.res = "ok" /\ ~last.h
    /\ \E e \in 1 .. Len(elems) :
          /\ elems[e].key = last.key
          /\ elems[e].activation = Zero
          /\ elems[e].prev # NoLink /\ elems[e].prev.to \in Hot(elems)
          /\ elems[e].next # NoLink /\ elems[e].next.to \in Hot(elems)

\* C14: activate of a key that is not in the graph returns an error and leaves
\* the whole graph unchanged when the data category is Categorical (whatever
\* the flags), and when it is Numerical or Ordinal with
\* propagate_horizontal = false
C14_MissingKeyError ==
    \A k \in SensorItems \ InsertedKeys, s \in AnySignal, h \in BOOLEAN, v \in BOOLEAN :
        (data_category = "Categorical" \/ ~h) =>
            activate(G, data_category, k, s, h, v)
                = [g |-> G, res |-> "err", inserted |-> FALSE]

\* C14 witness: activate(k, s, true, v) of a missing key has failed on a
\* Categorical graph that was split and carries activations
C14_Witness ==
    /\ last.op = "activate" /\ last.res = "err" /\ last.h
    /\ data_category = "Categorical"
    /\ last.key \notin InsertedKeys
    /\ Len(nodes) >= 3
    /\ Hot(elems) # {}

\* The element created by the step is linked into the chain between the
\* elements of the nearest inserted keys, moves the extrema when it lies outside
\* them, and carries on its links the weights of the range after the step
C15_NewElementLinked ==
    LET new == Len(elems')
        key == elems'[new].key
        keys == { k \in AllKeys : inserted'[k] > 0 }
        d == distance(key_min', key_max')
        w(a, b) == RSub(One, RDiv(Rat(distance(elems'[a].key, elems'[b].key), 1),
                                  Rat(IF d > 1 THEN d ELSE 1, 1)))
        p == elems'[new].prev
        n == elems'[new].next
    IN  /\ key_min' \in keys /\ \A k \in keys : key_min' <= k
        /\ key_max' \in keys /\ \A k \in keys : k <= key_max'
        /\ elems'[element_min'].key = key_min'
        /\ elems'[element_max'].key = key_max'
        /\ IF p = NoLink THEN element_min' = new
           ELSE /\ elems'[p.to].key < key
                /\ \A k \in keys : ~(elems'[p.to].key < k /\ k < key)
                /\ elems'[p.to].next = Link(new, w(p.to, new))
                /\ p.w = w(p.to, new)
        /\ IF n = NoLink THEN element_max' = new
           ELSE /\ key < elems'[n.to].key
                /\ \A k \in keys : ~(key < k /\ k < elems'[n.to].key)
                /\ elems'[n.to].prev = Link(new, w(new, n.to))
                /\ n.w = w(new, n.to)

\* C15: activate(key, s, true, v) of a key missing from a Numerical or Ordinal
\* graph succeeds: the key is inserted exactly as by insert (search finds it
\* with counter 1, the chain, extrema and weight invariants hold) and the new
\* element is then fuzzy-activated, so its activation is s
C15_MissingKeyInserted ==
    [][ ( /\ last'.op = "activate"
          /\ search(G, last'.key) = None
          /\ data_category # "Categorical"
          /\ last'.h ) =>
            LET ins == insert(G, last'.key)
            IN  /\ last'.res = "ok"
                /\ Gnext = [ins.g EXCEPT
                               !.elems = fuzzy_activate(@, ins.ret, last'.signal)]
                /\ inserted' = [inserted EXCEPT ![last'.key] = @ + 1]
                /\ Len(elems') = Len(elems) + 1
                /\ last'.ret = Len(elems')
                /\ search(Gnext, last'.key) = Len(elems')
                /\ elems'[Len(elems')].key = last'.key
                /\ elems'[Len(elems')].counter = 1
                /\ elems'[Len(elems')].activation = last'.signal
                /\ \A e \in 1 .. Len(elems) :
                      /\ elems'[e].key = elems[e].key
                      /\ elems'[e].counter = elems[e].counter
                /\ C15_NewElementLinked ]_vars

\* C15 witness: the one activate made so far has inserted its key, apart from
\* the run of keys inserted before, into a tree that was split, and has
\* activated the new element and a neighbour of it
C15_Witness ==
    /\ last.op = "activate" /\ last.res = "ok" /\ last.h
    /\ nacts = 1
    /\ Len(nodes) >= 3
    /\ last.ret = Len(elems)
    /\ inserted[last.key] = 1
    /\ last.key - 1 \notin InsertedKeys /\ last.key + 1 \notin InsertedKeys
    /\ elems[last.ret].activation = last.signal
    /\ Cardinality(Hot(elems)) >= 2

\* C16: deactivate(key, h, v) of a key that is not in the graph returns an
\* error and changes nothing, for every combination of flags and every data
\* category
C16_DeactivateMissingKey ==
    \A k \in (SensorItems \cup { key_min - 1, key_max + 1 }) \ InsertedKeys,
       h \in BOOLEAN, v \in BOOLEAN :
        deactivate(G, k, h, v) = [g |-> G, res |-> "err"]

\* C16 witness: deactivate of a missing key has failed on a graph that carries
\* activations
C16_Witness ==
    /\ last.op = "deactivate" /\ last.res = "err"
    /\ last.key \notin InsertedKeys
    /\ Len(nodes) >= 3
    /\ Cardinality(Hot(elems)) >= 2

\* C17 as stated: the search of the Sensor facade has the outcome of
\* ASAGraph::search: the element for a key that was inserted, and none, without
\* failing, for a key that was never inserted or on an empty graph
C17_FacadeSearchSame ==
    \A k \in Probes : sensor_search(G, k) = search(G, k)

C20_DefinedNeuronActivated ==
    \A a \in Elements, b \in 1 .. Len(elems), s \in AnySignal :
        ( /\ elems[a].definitions = << b >>
          /\ elems[b].definitions = << >>
          /\ elems[a].next = NoLink /\ elems[a].prev = NoLink
          /\ elems[a].activation = Zero /\ elems[b].activation = Zero ) =>
            /\ ElementActivateNeurons(elems, a, s, TRUE, TRUE) = { b }
            /\ ElementActivate(elems, a, s, TRUE, TRUE)[a].activation = s
            /\ ElementActivate(elems, a, s, TRUE, TRUE)[b].activation = s

HolderOf(ns, rt, k) ==
    CHOOSE n \in Subtree(ns, rt) : \E i \in 1 .. ns[n].size : ns[n].keys[i] = k

\* the number of levels below node n
RECURSIVE HeightOf(_, _)
HeightOf(ns, n) == IF ns[n].is_leaf THEN 0 ELSE 1 + HeightOf(ns, ns[n].children[1])

\* the insert step has split a full child and the key it inserts is the key
\* that split promoted into the parent: the key was in the graph, and the
\* step has moved it one level up, into a node that is not a root made by
\* split_root
PromotedKeyStep ==
    /\ last'.op = "insert" /\ last'.res = "ok"
    /\ inserted[last'.key] > 0
    /\ HeightOf(nodes', HolderOf(nodes', root', last'.key))
          = HeightOf(nodes, HolderOf(nodes, root, last'.key)) + 1
    /\ ~(root' # root /\ HolderOf(nodes', root', last'.key) = root')

\* C21 as stated: when insert splits a full child and the key being inserted
\* equals the key promoted into the parent, insert increments the counter of
\* the promoted element by one, creates no element and returns that element
C21_PromotedKeyCounted ==
    [][ PromotedKeyStep =>
            /\ Len(elems') = Len(elems)
            /\ last'.ret = search(G, last'.key)
            /\ elems'[last'.ret].counter = elems[last'.ret].counter + 1 ]_vars

\* C22: after any sequence of insert calls, within every node the keys of the
\* slots 0 .. size are strictly ascending, keys[j] is the key of elements[j],
\* and for every internal node all keys in the subtree children[i] are below
\* keys[i] and all keys in the subtree children[i + 1] are above keys[i]
C22_SearchTreeOrder ==
    [](\A n \in TreeNodes :
          /\ Len(nodes[n].keys) = nodes[n].size
          /\ Len(nodes[n].elements) = nodes[n].size
          /\ \A j \in 1 .. nodes[n].size :
                /\ elems[nodes[n].elements[j]].key = nodes[n].keys[j]
                /\ j < nodes[n].size => nodes[n].keys[j] < nodes[n].keys[j + 1]
                /\ ~nodes[n].is_leaf =>
                      /\ \A c \in Subtree(nodes, nodes[n].children[j]) :
                            \A i \in 1 .. nodes[c].size :
                                nodes[c].keys[i] < nodes[n].keys[j]
                      /\ \A c \in Subtree(nodes, nodes[n].children[j + 1]) :
                            \A i \in 1 .. nodes[c].size :
                                nodes[c].keys[i] > nodes[n].keys[j])

\* C22 witness: children were split below a root of two keys or more, and the
\* last insert has put a new key into the node the latest split made
C22_Witness ==
    /\ last.op = "insert"
    /\ Len(nodes) >= 4
    /\ nodes[root].size >= 2
    /\ elems[last.ret].counter = 1
    /\ last.ret = Len(elems)
    /\ HolderOf(nodes, root, last.key) = Len(nodes)

\* C23: in every reachable state key_min, key_max, element_min and element_max
\* are either all absent, exactly when no key has been inserted (root.size =
\* 0), or all present; no operation has taken a fatal path, and insert of any
\* key takes neither the fatal path 'inconsistent extremas' of set_extrema nor
\* 'element_min / element_min must not be nullptr' of insert
C23_ExtremaAllOrNone ==
    [](/\ (key_min = NoKey) <=> (InsertedKeys = {})
       /\ (key_max = NoKey) <=> (InsertedKeys = {})
       /\ (element_min = None) <=> (InsertedKeys = {})
       /\ (element_max = None) <=> (InsertedKeys = {})
       /\ (nodes[root].size = 0) <=> (InsertedKeys = {})
       /\ ~InconsistentExtrema(G)
       /\ last.res # "panic"
       /\ \A k \in Keys : insert(G, k).ret # Panic)

\* C23 witness: activate has inserted a key above the maximum into a tree that
\* was split; the four extrema are present and the new element is element_max
C23_Witness ==
    /\ last.op = "activate" /\ last.res = "ok"
    /\ Len(nodes) >= 3
    /\ last.ret = Len(elems)
    /\ element_max = last.ret /\ key_max = last.key
    /\ element_min \notin { None, element_max } /\ key_min # NoKey

\* C24: splits promote elements without copying them: the element insert(k)
\* returns is the element every later search(k) returns, at whatever level of
\* the tree k ends up after any number of splits, and a split (split_child or
\* split_root) changes no element
C24_ElementIdentity ==
    [][ /\ \A k \in InsertedKeys : search(Gnext, k) = search(G, k)
        /\ (last'.op = "insert" /\ last'.res = "ok") =>
               /\ last'.ret = search(Gnext, last'.key)
               /\ elems'[last'.ret].key = last'.key
        /\ IsFull(nodes[root]) => split_root(G).elems = elems
        /\ (last'.op = "insert" /\ inserted[last'.key] > 0) =>
               /\ Len(elems') = Len(elems)
               /\ \A e \in 1 .. Len(elems) :
                     elems'[e] = [elems[e] EXCEPT !.counter = elems'[e].counter] ]_vars

\* C24 witness: the tree has three levels, so the key in the root was promoted
\* twice since the insert that created its element, and search returns that
\* element
C24_Witness ==
    /\ last.op = "insert"
    /\ HeightOf(nodes, root) >= 2
    /\ \A k \in InsertedKeys : elems[search(G, k)].key = k
    /\ search(G, nodes[root].keys[1]) = nodes[root].elements[1]
    /\ nodes[root].elements[1] < Len(elems)

\* C25: the distance bias chooses the scan direction and never the outcome:
\* on every tree a call leaves and for every key the left-scan search and the
\* right-scan search return the same element or both none, and every insert
\* call would have yielded the same graph and the same element had its loop
\* scanned in the other direction
C25_DirectionIrrelevant ==
    [][ /\ nodes'[root'].size # 0 =>
              \A k \in Probes :
                  search_left(Gnext, k, root') = search_right(Gnext, k, root')
        /\ (last'.op = "insert" /\ last'.res = "ok" /\ nodes[root].size # 0) =>
              LET g1 == InsertRoot(G)
              IN  InsertLoop(g1, g1.root, last'.key, ~CloserToMin(g1, last'.key))
                      = [g |-> Gnext, ret |-> last'.ret] ]_vars

\* C25 witness: an insert that scanned from the right has left a tree of three
\* levels, in which the two searches agree on a key nearer to the maximum and
\* on the missing keys beyond both ends
C25_Witness ==
    /\ last.op = "insert"
    /\ ~CloserToMin(G, last.key)
    /\ HeightOf(nodes, root) >= 2
    /\ \E k \in InsertedKeys :
          /\ ~CloserToMin(G, k)
          /\ search_left(G, k, root) = search_right(G, k, root)
          /\ elems[search_left(G, k, root)].key = k
    /\ search_left(G, key_max + 1, root) = None
    /\ search_right(G, key_min - 1, root) = None

\* the weight 1 - distance / range of the edge between the elements a and b
EdgeWeight(a, b, rng) ==
    RSub(One, RDiv(Rat(distance(elems[a].key, elems[b].key), 1), rng))

\* C26: set_connections(e, p, n, range) leaves e.prev = p and e.next = n; a
\* present p gets p.next = e and a present n gets n.prev = e, both sides of
\* the edge with the weight 1 - distance / range; with p (or n) absent only
\* the prev (or next) link of e is cleared, and every other link, the one a
\* former neighbour holds toward e included, is left as it was.
C26_SetConnections ==
    [][ last'.op = "set_connections" =>
          LET e == last'.key
              p == last'.ret[1]
              n == last'.ret[2]
              rng == last'.signal
          IN  /\ elems'[e].prev = (IF p # None THEN Link(p, EdgeWeight(e, p, rng))
                                               ELSE NoLink)
              /\ elems'[e].next = (IF n # None THEN Link(n, EdgeWeight(e, n, rng))
                                               ELSE NoLink)
              /\ p # None => /\ elems'[p].next = Link(e, EdgeWeight(e, p, rng))
                             /\ elems'[p].next.w = elems'[e].prev.w
              /\ n # None => /\ elems'[n].prev = Link(e, EdgeWeight(e, n, rng))
                             /\ elems'[n].prev.w = elems'[e].next.w
              /\ Len(elems') = Len(elems)
              /\ \A x \in (1 .. Len(elems)) \ {e} :
                    /\ x # p => elems'[x].next = elems[x].next
                    /\ x # n => elems'[x].prev = elems[x].prev
              /\ \A x \in 1 .. Len(elems) :
                    elems'[x] = [elems[x] EXCEPT !.prev = elems'[x].prev,
                                                 !.next = elems'[x].next] ]_vars

\* C26 witness: element 2 was linked after element 1 and is then given no
\* predecessor and the successor 3: element 1 still points to element 2
C26_Witness ==
    /\ last.op = "set_connections"
    /\ last.key = 2
    /\ last.ret = << None, 3 >>
    /\ elems[2].prev = NoLink
    /\ elems[1].next.to = 2
    /\ elems[2].next.to = 3
    /\ elems[3].prev.to = 2
    /\ elems[3].prev.w = elems[2].next.w
    /\ elems[3].prev.w # NaN

\* the parent link of every child of every node of the tree under rt names
\* that node, and rt itself has no parent
ParentsAgree(ns, rt) ==
    /\ ns[rt].parent = None
    /\ \A n \in Subtree(ns, rt) :
          \A i \in 1 .. Len(ns[n].children) : ns[ns[n].children[i]].parent = n

\* C27: after any sequence of insert calls the root has no parent and every
\* node stored in children[i] of a node N has N as its parent; this holds
\* for the old root after split_root and for the children a split moved into
\* the new sibling.
C27_ParentLinks ==
    [](/\ ParentsAgree(nodes, root)
       /\ IsFull(nodes[root]) =>
             LET g == split_root(G)
             IN  /\ g.nodes[root].parent = g.root
                 /\ g.nodes[g.root].children[1] = root
                 /\ ParentsAgree(g.nodes, g.root))

\* C27 witness: an internal root was split; the new sibling, allocated after
\* the children it received, is their parent, and the old root is the first
\* child of the new root
C27_Witness ==
    /\ last.op = "insert"
    /\ HeightOf(nodes, root) >= 2
    /\ nodes[nodes[root].children[1]].parent = root
    /\ nodes[root].children[1] < root
    /\ \E n \in TreeNodes :
          /\ n # root
          /\ ~nodes[n].is_leaf
          /\ nodes[n].parent = root
          /\ \A i \in 1 .. Len(nodes[n].children) :
                /\ nodes[n].children[i] < n
                /\ nodes[nodes[n].children[i]].parent = n

\* the depths, counted from d at node n, at which the leaves under n lie
RECURSIVE LeafDepths(_, _, _)
LeafDepths(ns, n, d) ==
    IF Len(ns[n].children) = 0 THEN {d}
    ELSE UNION { LeafDepths(ns, ns[n].children[i], d + 1) :
                    i \in 1 .. Len(ns[n].children) }

\* all leaves under rt lie at one depth, an internal node of size s has
\* s + 1 children and a leaf has none
Balanced(ns, rt) ==
    /\ Cardinality(LeafDepths(ns, rt, 0)) = 1
    /\ \A n \in Subtree(ns, rt) :
          Len(ns[n].children) = (IF ns[n].is_leaf THEN 0 ELSE ns[n].size + 1)

\* C28: after every call the leaves are at the same depth, an internal node
\* of size s has s + 1 children and a leaf has none; the height changes only
\* when the call found a full root, which split_root replaces by a root of
\* one key and two children, and it then grows by one.
C28_BalancedGrowth ==
    [][ /\ Balanced(nodes', root')
        /\ HeightOf(nodes', root') # HeightOf(nodes, root) =>
              /\ IsFull(nodes[root])
              /\ root' # root
              /\ HeightOf(nodes', root') = HeightOf(nodes, root) + 1
              /\ nodes'[root'].size = 1
              /\ Len(nodes'[root'].children) = 2
        /\ IsFull(nodes[root]) =>
              LET g == split_root(G)
              IN  /\ g.nodes[g.root].size = 1
                  /\ Len(g.nodes[g.root].children) = 2
                  /\ Balanced(g.nodes, g.root)
                  /\ HeightOf(g.nodes, g.root) = HeightOf(nodes, root) + 1 ]_vars

\* C28 witness: the last insert split an internal root: the tree has three
\* levels, and its root, the last but one node allocated, has one key and
\* two internal children
C28_Witness ==
    /\ last.op = "insert"
    /\ Balanced(nodes, root)
    /\ LeafDepths(nodes, root, 0) = {2}
    /\ HeightOf(nodes, root) = 2
    /\ root = Len(nodes) - 1
    /\ nodes[root].size = 1
    /\ Len(nodes[root].children) = 2
    /\ \A i \in 1 .. 2 : ~nodes[nodes[root].children[i]].is_leaf

\* C29: insert never changes activations: every insert call leaves the
\* activation of every element that was present unchanged, and the element
\* it creates starts with activation 0 and counter 1; in every reachable
\* graph with active elements the same holds for insert(key) of every key.
C29_InsertKeepsActivations ==
    /\ [][ (last'.op = "insert" /\ last'.res = "ok") =>
              /\ \A e \in 1 .. Len(elems) : elems'[e].activation = elems[e].activation
              /\ Len(elems') = (IF search(G, last'.key) = None THEN Len(elems) + 1
                                                              ELSE Len(elems))
              /\ search(G, last'.key) = None =>
                    /\ last'.ret = Len(elems')
                    /\ elems'[last'.ret].key = last'.key
                    /\ elems'[last'.ret].activation = Zero
                    /\ elems'[last'.ret].counter = 1 ]_vars
    /\ [](Hot(elems) # {} =>
            \A k \in AllKeys :
                LET r == insert(G, k)
                    n == Len(elems)
                IN  r.ret # Panic =>
                      /\ \A e \in 1 .. n : r.g.elems[e].activation = elems[e].activation
                      /\ Len(r.g.elems) = (IF search(G, k) = None THEN n + 1 ELSE n)
                      /\ search(G, k) = None =>
                            /\ r.ret = n + 1
                            /\ r.g.elems[n + 1].key = k
                            /\ r.g.elems[n + 1].activation = Zero
                            /\ r.g.elems[n + 1].counter = 1)

\* C29 witness: two elements are active, the smallest one among them, the
\* root is full, and a key above key_max is missing: its insert splits the
\* root, changes the range and recomputes every weight
C29_Witness ==
    /\ last.op = "activate"
    /\ Cardinality(Hot(elems)) >= 2
    /\ element_min \in Hot(elems)
    /\ IsFull(nodes[root])
    /\ key_max + 1 \in AllKeys
    /\ LET r == insert(G, key_max + 1)
       IN  /\ r.ret = Len(elems) + 1
           /\ r.g.root # root
           /\ r.g.key_max = key_max + 1
           /\ r.g.elems[element_min].next.w # elems[element_min].next.w
           /\ Hot(r.g.elems) = Hot(elems)

\* the keys the graph holds
PresentKeys == { k \in AllKeys : search(G, k) # None }

\* C30: an insert(key) call with a key the graph holds changes at most the
\* counter of that key's element, by one: the keys held and their elements,
\* the chain order and links, every weight, key_min / key_max, element_min /
\* element_max and every other counter are the same after the call, whether
\* or not the call splits the root or a child on its way down.
C30_DuplicateInsertFrame ==
    [][ (last'.op = "insert" /\ search(G, last'.key) # None) =>
          LET e == search(G, last'.key)
          IN  /\ last'.ret = e
              /\ elems' = [elems EXCEPT ![e].counter = elems'[e].counter]
              /\ elems'[e].counter \in { elems[e].counter, elems[e].counter + 1 }
              /\ key_min' = key_min /\ key_max' = key_max
              /\ element_min' = element_min /\ element_max' = element_max
              /\ Iterate(Gnext) = Iterate(G)
              /\ \A k2 \in AllKeys : search(Gnext, k2) = search(G, k2) ]_vars

\* C30 witness: the fourth insert repeated one of the three keys of a full
\* root and split it; the key's counter is 2 and the chain of three elements
\* carries its weights
C30_Witness ==
    /\ last.op = "insert"
    /\ Cardinality(PresentKeys) = 3
    /\ Len(elems) = 3
    /\ Len(nodes) = 3
    /\ root = 2
    /\ last.ret = search(G, last.key)
    /\ elems[last.ret].counter = 2
    /\ \A e \in (1 .. 3) \ {last.ret} : elems[e].counter = 1
    /\ Len(Iterate(G)) = 3
    /\ elems[element_min].next.w # NaN

====
